---- MODULE Spec2Model ----
(***************************************************************************)
(* Model of ticket-system-sync: the Zammad -> Jira synchronisation engine  *)
(* (models/zammad.rs), the assignment store it uses (models/db.rs) and the *)
(* outbound Jira calls (models/api_request.rs).                            *)
(*                                                                         *)
(* Every webhook invocation is an async task; it can be interleaved with   *)
(* other invocations at each .await, so each awaited step is one action.   *)
(* A remote call either succeeds or fails.  The store is a local SQLite     *)
(* file; its I/O errors are outside the model, its statements are atomic.  *)
(***************************************************************************)
EXTENDS Integers, Sequences, FiniteSets, TLC

\* ---------------------------------------------------------------- bounds
\* number of webhook invocations that are ever received
MaxInvocations == 3
\* number of direct store calls in the store-level specification
MaxStoreOps == 5

\* the source tickets the webhooks are about (webhook.ticket.id)
Tickets == {100, 200}
Invocations == 1..MaxInvocations
\* the issue ids the remote can have handed out: one per invocation at most
IssueIds == 1..MaxInvocations

\* ------------------------------------------------------------ data model
\* jira_id INTEGER is a nullable column; a row inserted by
\* create_assignment_from_zammad leaves it NULL.  Jira issue ids are
\* positive, so NULL is kept apart from them.
NULL == 0

\* Option<String> article.body: <<>> is None, <<s>> is Some(s).
None == <<>>
Some(s) == <<s>>
is_some(o) == Len(o) = 1
unwrap_or_default(o) == IF is_some(o) THEN o[1] ELSE ""

\* the article bodies a webhook may carry: absent, empty, non-empty
Bodies == {None, Some(""), Some("Customer replied")}

VARIABLES
    assignments,  \* the assignments table: sequence of rows, id = position
    inv,          \* the webhook invocations, by number
    nextIssueId,  \* the remote issue tracker: id its next created issue gets
    storeLog,     \* direct calls of the store API (store-level specification)
    built         \* last application of a translator or request builder

vars == <<assignments, inv, nextIssueId, storeLog, built>>

\* ------------------------------------------------------ assignment store
\* the rows (in rowid order) whose zammad_id is zid
RowsOf(rows, zid) == {k \in DOMAIN rows : rows[k].zammad_id = zid}

SetMin(S) == CHOOSE m \in S : \A x \in S : m <= x

\* INSERT INTO assignments (zammad_id) VALUES (?): the table declares no
\* UNIQUE constraint on zammad_id, so the insert always succeeds.
create_assignment_from_zammad(rows, zammad_id) ==
    [res  |-> "Ok",
     rows |-> Append(rows, [zammad_id |-> zammad_id, jira_id |-> NULL])]

\* mutant: the UPDATE without its WHERE clause sets jira_id on every row
add_jira_id_to_assignment_no_where(rows, jira_id, zammad_id) ==
    [res  |-> "Ok",
     rows |-> [k \in DOMAIN rows |-> [rows[k] EXCEPT !.jira_id = jira_id]]]

\* UPDATE assignments SET jira_id = ? WHERE zammad_id = ?: every matching
\* row is updated; the number of rows affected is not looked at, so the
\* call is Ok also when no row matches.
add_jira_id_to_assignment(rows, jira_id, zammad_id) ==
    [res  |-> "Ok",
     rows |-> [k \in DOMAIN rows |->
                 IF rows[k].zammad_id = zammad_id
                 THEN [rows[k] EXCEPT !.jira_id = jira_id]
                 ELSE rows[k]]]

\* mutant: fetch_optional with a defaulted id, so a missing row is no error
get_jira_id_by_zammad_id_default_on_miss(rows, zammad_id) ==
    IF RowsOf(rows, zammad_id) = {}
    THEN [res |-> "Ok", jira_id |-> NULL]
    ELSE LET row == rows[SetMin(RowsOf(rows, zammad_id))]
         IN  IF row.jira_id = NULL
             THEN [res |-> "ColumnDecode", jira_id |-> NULL]
             ELSE [res |-> "Ok", jira_id |-> row.jira_id]

\* mutant: try_get::<Option<i32>> with unwrap_or_default, so a NULL jira_id
\* is handed to the caller as an id
get_jira_id_by_zammad_id_null_as_default(rows, zammad_id) ==
    IF RowsOf(rows, zammad_id) = {}
    THEN [res |-> "RowNotFound", jira_id |-> NULL]
    ELSE [res |-> "Ok",
          jira_id |-> rows[SetMin(RowsOf(rows, zammad_id))].jira_id]

\* mutant: the decode error of a NULL jira_id reported as the lookup miss
get_jira_id_by_zammad_id_one_error(rows, zammad_id) ==
    IF RowsOf(rows, zammad_id) = {}
    THEN [res |-> "RowNotFound", jira_id |-> NULL]
    ELSE LET row == rows[SetMin(RowsOf(rows, zammad_id))]
         IN  IF row.jira_id = NULL
             THEN [res |-> "RowNotFound", jira_id |-> NULL]
             ELSE [res |-> "Ok", jira_id |-> row.jira_id]

\* mutant: the lookup without its WHERE clause, on the first row of the table
get_jira_id_by_zammad_id_any_ticket(rows, zammad_id) ==
    IF rows = <<>>
    THEN [res |-> "RowNotFound", jira_id |-> NULL]
    ELSE IF rows[1].jira_id = NULL
         THEN [res |-> "ColumnDecode", jira_id |-> NULL]
         ELSE [res |-> "Ok", jira_id |-> rows[1].jira_id]

\* SELECT * FROM assignments WHERE zammad_id = ? with fetch_one: the first
\* matching row of the table scan (rowid order), RowNotFound when there is
\* none; try_get::<i32>("jira_id") fails on a NULL column.
get_jira_id_by_zammad_id(rows, zammad_id) ==
    IF RowsOf(rows, zammad_id) = {}
    THEN [res |-> "RowNotFound", jira_id |-> NULL]
    ELSE LET row == rows[SetMin(RowsOf(rows, zammad_id))]
         IN  IF row.jira_id = NULL
             THEN [res |-> "ColumnDecode", jira_id |-> NULL]
             ELSE [res |-> "Ok", jira_id |-> row.jira_id]

\* ------------------------------------------------------------ invocations
Idle == [kind |-> "none", ticket |-> 0, body |-> None, issue |-> None,
         pc |-> "idle",
         pending |-> "none", jira_issue_id |-> NULL, calls |-> <<>>,
         result |-> "none", status |-> 0]

\* a remote call as the issue tracker sees it
Call(op, target, body, ok, id) ==
    [op |-> op, target |-> target, body |-> body, ok |-> ok, id |-> id]

\* create_ticket_handler / update_ticket_handler: Ok -> 200, Err -> 400
HandlerStatus(result) == IF result = "Ok" THEN 200 ELSE 400

Finish(r, result) ==
    [r EXCEPT !.pc = "done", !.result = result,
              !.status = HandlerStatus(result)]

Init ==
    /\ assignments = <<>>
    /\ inv = [i \in Invocations |-> Idle]
    /\ nextIssueId = 1
    /\ storeLog = <<>>
    /\ built = [fn |-> "none", input |-> <<>>, output |-> <<>>]

\* invocations are numbered in the order they are received
NextFree(i) == /\ inv[i].pc = "idle"
               /\ \A j \in Invocations : j < i => inv[j].pc # "idle"

\* mutant: create_ticket goes to the remote create without the insert
ReceiveCreate_skipping_insert(i, t) ==
    /\ NextFree(i)
    /\ inv' = [inv EXCEPT ![i] = [Idle EXCEPT !.kind = "create",
                                              !.ticket = t,
                                              !.pc = "c_submit"]]
    /\ UNCHANGED <<assignments, nextIssueId, storeLog, built>>

\* POST /create-ticket/:id reaches create_ticket_handler
ReceiveCreate(i, t) ==
    /\ NextFree(i)
    /\ inv' = [inv EXCEPT ![i] = [Idle EXCEPT !.kind = "create",
                                              !.ticket = t,
                                              !.pc = "c_insert"]]
    /\ UNCHANGED <<assignments, nextIssueId, storeLog, built>>

\* create_ticket: db.create_assignment_from_zammad(&webhook.ticket.id).await?
CreateInsert(i) ==
    /\ inv[i].pc = "c_insert"
    /\ LET r == create_assignment_from_zammad(assignments, inv[i].ticket)
       IN  IF r.res = "Ok"
           THEN /\ assignments' = r.rows
                /\ inv' = [inv EXCEPT ![i].pending = r.res,
                                       ![i].pc = "c_submit"]
           ELSE /\ assignments' = assignments
                /\ inv' = [inv EXCEPT ![i] =
                              Finish([inv[i] EXCEPT !.pending = r.res], r.res)]
    /\ UNCHANGED <<nextIssueId, storeLog, built>>

\* mutant: create_ticket ignores the failure of the remote create and goes
\* on to the attach
CreateSubmit_swallowing_failure(i) ==
    /\ inv[i].pc = "c_submit"
    /\ \E ok \in BOOLEAN :
         /\ inv' = [inv EXCEPT
               ![i].calls = Append(@, Call("create", NULL, "", ok,
                                           IF ok THEN nextIssueId ELSE NULL)),
               ![i].jira_issue_id = IF ok THEN nextIssueId ELSE NULL,
               ![i].pc = "c_attach"]
         /\ nextIssueId' = IF ok THEN nextIssueId + 1 ELSE nextIssueId
    /\ UNCHANGED <<assignments, storeLog, built>>

\* create_ticket: JiraCreateIssueRequest::from_zammad_webhook(..).submit().await?
\* The remote answers with the new issue's id, or the call fails.
CreateSubmit(i) ==
    /\ inv[i].pc = "c_submit"
    /\ \E ok \in BOOLEAN :
         IF ok
         THEN /\ inv' = [inv EXCEPT
                    ![i].calls = Append(@, Call("create", NULL, "", TRUE,
                                                nextIssueId)),
                    ![i].jira_issue_id = nextIssueId,
                    ![i].pc = "c_attach"]
              /\ nextIssueId' = nextIssueId + 1
         ELSE /\ inv' = [inv EXCEPT ![i] =
                    Finish([inv[i] EXCEPT !.calls =
                              Append(@, Call("create", NULL, "", FALSE, NULL))],
                           "RemoteApiError")]
              /\ nextIssueId' = nextIssueId
    /\ UNCHANGED <<assignments, storeLog, built>>

\* create_ticket: db.add_jira_id_to_assignment(&jira_issue_id, &ticket.id).await?
CreateAttach(i) ==
    /\ inv[i].pc = "c_attach"
    /\ LET r == add_jira_id_to_assignment(assignments, inv[i].jira_issue_id,
                                          inv[i].ticket)
       IN  /\ assignments' = r.rows
           /\ inv' = [inv EXCEPT ![i] = Finish(inv[i], r.res)]
    /\ UNCHANGED <<nextIssueId, storeLog, built>>

\* POST /update-ticket/:id reaches update_ticket_handler
ReceiveUpdate(i, t, b) ==
    /\ NextFree(i)
    /\ inv' = [inv EXCEPT ![i] = [Idle EXCEPT !.kind = "update",
                                              !.ticket = t,
                                              !.body = b,
                                              !.pc = "u_resolve"]]
    /\ UNCHANGED <<assignments, nextIssueId, storeLog, built>>

\* mutant: update_ticket without its add-comment block
AfterResolve_without_comment(body) == "u_update"

\* update_ticket: the step after the target id is resolved
AfterResolve(body) == IF is_some(body) THEN "u_comment" ELSE "u_update"

\* update_ticket: db.get_jira_id_by_zammad_id(&payload.ticket.id).await?
\* mutant: update_ticket goes on with whatever the lookup gave, error or not
UpdateResolve_ignoring_error(i) ==
    /\ inv[i].pc = "u_resolve"
    /\ LET r == get_jira_id_by_zammad_id(assignments, inv[i].ticket)
       IN  inv' = [inv EXCEPT ![i].jira_issue_id = r.jira_id,
                              ![i].pc = AfterResolve(inv[i].body)]
    /\ UNCHANGED <<assignments, nextIssueId, storeLog, built>>

\* mutant: update_ticket records an Assignment when it finds none
UpdateResolve_creating_on_miss(i) ==
    /\ inv[i].pc = "u_resolve"
    /\ LET r == get_jira_id_by_zammad_id(assignments, inv[i].ticket)
       IN  /\ IF r.res = "Ok"
              THEN inv' = [inv EXCEPT ![i].jira_issue_id = r.jira_id,
                                      ![i].pc = AfterResolve(inv[i].body)]
              ELSE inv' = [inv EXCEPT ![i] = Finish(inv[i], r.res)]
           /\ assignments' =
                 IF r.res = "RowNotFound"
                 THEN create_assignment_from_zammad(assignments,
                                                    inv[i].ticket).rows
                 ELSE assignments
    /\ UNCHANGED <<nextIssueId, storeLog, built>>

UpdateResolve(i) ==
    /\ inv[i].pc = "u_resolve"
    /\ LET r == get_jira_id_by_zammad_id(assignments, inv[i].ticket)
       IN  IF r.res = "Ok"
           THEN inv' = [inv EXCEPT ![i].jira_issue_id = r.jira_id,
                                   ![i].pc = AfterResolve(inv[i].body)]
           ELSE inv' = [inv EXCEPT ![i] = Finish(inv[i], r.res)]
    /\ UNCHANGED <<assignments, nextIssueId, storeLog, built>>

\* mutant: update_ticket goes on to the update when the comment failed
UpdateComment_continuing_on_failure(i) ==
    /\ inv[i].pc = "u_comment"
    /\ \E ok \in BOOLEAN :
         LET c == Call("comment", inv[i].jira_issue_id,
                       unwrap_or_default(inv[i].body), ok, NULL)
             r == [inv[i] EXCEPT !.calls = Append(@, c)]
         IN  inv' = [inv EXCEPT ![i] = [r EXCEPT !.pc = "u_update"]]
    /\ UNCHANGED <<assignments, nextIssueId, storeLog, built>>

\* update_ticket: JiraAddCommentRequest::from_zammad_webhook(..)
\*                    .submit(&jira_issue_id).await?
UpdateComment(i) ==
    /\ inv[i].pc = "u_comment"
    /\ \E ok \in BOOLEAN :
         LET c == Call("comment", inv[i].jira_issue_id,
                       unwrap_or_default(inv[i].body), ok, NULL)
             r == [inv[i] EXCEPT !.calls = Append(@, c)]
         IN  IF ok
             THEN inv' = [inv EXCEPT ![i] = [r EXCEPT !.pc = "u_update"]]
             ELSE inv' = [inv EXCEPT ![i] = Finish(r, "RemoteApiError")]
    /\ UNCHANGED <<assignments, nextIssueId, storeLog, built>>

\* update_ticket: JiraUpdateIssueRequest::from_zammad_webhook(..)
\*                    .submit(&jira_issue_id).await?
UpdateSubmit(i) ==
    /\ inv[i].pc = "u_update"
    /\ \E ok \in BOOLEAN :
         LET c == Call("update", inv[i].jira_issue_id, "", ok, NULL)
             r == [inv[i] EXCEPT !.calls = Append(@, c)]
         IN  inv' = [inv EXCEPT ![i] =
                        Finish(r, IF ok THEN "Ok" ELSE "RemoteApiError")]
    /\ UNCHANGED <<assignments, nextIssueId, storeLog, built>>

Next ==
    \/ \E i \in Invocations, t \in Tickets : ReceiveCreate(i, t)
    \/ \E i \in Invocations : CreateInsert(i)
    \/ \E i \in Invocations : CreateSubmit(i)
    \/ \E i \in Invocations : CreateAttach(i)
    \/ \E i \in Invocations, t \in Tickets, b \in Bodies : ReceiveUpdate(i, t, b)
    \/ \E i \in Invocations : UpdateResolve(i)
    \/ \E i \in Invocations : UpdateComment(i)
    \/ \E i \in Invocations : UpdateSubmit(i)

Spec == Init /\ [][Next]_vars

\* -------------------------------------------- specification with a stop
\* create_ticket is a future with an await point between the answer of the
\* remote create and the attach: when the process stops there, or the
\* future is dropped, the invocation ends where it is and answers nothing.
\* The rows already written stay in the store.
Crash(i) ==
    /\ inv[i].pc = "c_attach"
    /\ inv' = [inv EXCEPT ![i].pc = "stopped"]
    /\ UNCHANGED <<assignments, nextIssueId, storeLog, built>>

CrashNext ==
    \/ Next
    \/ \E i \in Invocations : Crash(i)

SpecCrash == Init /\ [][CrashNext]_vars

\* ------------------------------------- specification with redelivery
\* The sender delivers the "created" webhook of a ticket once and delivers
\* it again after every invocation for that ticket that did not answer 200.
\* The remote create fails at most MaxFailures times in all, which leaves
\* every ticket an invocation whose remote create succeeds.
MaxFailures == MaxInvocations - Cardinality(Tickets)

\* the created-event invocations for ticket t
CreatesFor(t) ==
    {i \in Invocations : inv[i].kind = "create" /\ inv[i].ticket = t}

\* the remote creates that have failed
RemoteFailures ==
    {i \in Invocations : inv[i].kind = "create"
                           /\ inv[i].result = "RemoteApiError"}

\* the first delivery of the created webhook of ticket t
Deliver(i, t) ==
    /\ CreatesFor(t) = {}
    /\ ReceiveCreate(i, t)

\* the sender's retry: the latest invocation for t has answered, not 200
Redeliver(i, t) ==
    /\ CreatesFor(t) # {}
    /\ LET last == CHOOSE j \in CreatesFor(t) :
                      \A k \in CreatesFor(t) : k <= j
       IN  inv[last].pc = "done" /\ inv[last].status # 200
    /\ ReceiveCreate(i, t)

\* the remote create, failing while it has not failed MaxFailures times
RetrySubmit(i) ==
    /\ CreateSubmit(i)
    /\ inv'[i].result = "RemoteApiError" =>
          Cardinality(RemoteFailures) < MaxFailures

RetryNext ==
    \/ \E i \in Invocations, t \in Tickets : Deliver(i, t)
    \/ \E i \in Invocations, t \in Tickets : Redeliver(i, t)
    \/ \E i \in Invocations : CreateInsert(i)
    \/ \E i \in Invocations : RetrySubmit(i)
    \/ \E i \in Invocations : CreateAttach(i)

\* the runtime runs every handler that can take a step, and the sender
\* does redeliver
SpecRetry == Init /\ [][RetryNext]_vars /\ WF_vars(RetryNext)

\* ------------------------------------------------ store-level specification
\* The three store operations called directly, in any order, on a store
\* that starts empty; storeLog keeps each call with the table before and
\* after it.
StoreEntry(op, zammad_id, jira_id, res, out, after) ==
    [op |-> op, zammad_id |-> zammad_id, jira_id |-> jira_id, res |-> res,
     out |-> out, before |-> assignments, after |-> after]

StoreCreatePending(t) ==
    LET r == create_assignment_from_zammad(assignments, t)
    IN  /\ Len(storeLog) < MaxStoreOps
        /\ assignments' = r.rows
        /\ storeLog' = Append(storeLog,
              StoreEntry("createPending", t, NULL, r.res, NULL, r.rows))
        /\ UNCHANGED <<inv, nextIssueId, built>>

StoreAttachTarget(j, t) ==
    LET r == add_jira_id_to_assignment(assignments, j, t)
    IN  /\ Len(storeLog) < MaxStoreOps
        /\ assignments' = r.rows
        /\ storeLog' = Append(storeLog,
              StoreEntry("attachTarget", t, j, r.res, NULL, r.rows))
        /\ UNCHANGED <<inv, nextIssueId, built>>

StoreResolveTarget(t) ==
    LET r == get_jira_id_by_zammad_id(assignments, t)
    IN  /\ Len(storeLog) < MaxStoreOps
        /\ assignments' = assignments
        /\ storeLog' = Append(storeLog,
              StoreEntry("resolveTarget", t, NULL, r.res, r.jira_id,
                         assignments))
        /\ UNCHANGED <<inv, nextIssueId, built>>

StoreNext ==
    \/ \E t \in Tickets : StoreCreatePending(t)
    \/ \E j \in IssueIds, t \in Tickets : StoreAttachTarget(j, t)
    \/ \E t \in Tickets : StoreResolveTarget(t)

SpecStore == Init /\ [][StoreNext]_vars

\* ------------------------------------------ reverse direction (models/jira.rs)
\* update_ticket calls db.get_zammad_id_by_jira_id, which db.rs does not
\* define; it is taken to be the lookup of get_jira_id_by_zammad_id with the
\* two columns exchanged: the zammad_id of the first row whose jira_id is
\* the issue's, RowNotFound when there is none.
get_zammad_id_by_jira_id(rows, jira_id) ==
    LET m == {k \in DOMAIN rows : rows[k].jira_id = jira_id}
    IN  IF m = {}
        THEN [res |-> "RowNotFound", zammad_id |-> 0]
        ELSE [res |-> "Ok", zammad_id |-> rows[SetMin(m)].zammad_id]

\* the issue of a Jira webhook: none, or one with an id
JiraIssues == {None} \cup {Some(id) : id \in IssueIds}

\* the issue ids a Jira webhook may name: those handed out, and the next one
KnownIssue(issue) == is_some(issue) => issue[1] <= nextIssueId

\* the comment of a Jira webhook: none, or one with a body
JiraComments == {None, Some("Fixed in 2.1")}

\* POST /create-ticket/:id of the Jira router reaches create_ticket_handler
ReceiveJiraCreate(i) ==
    /\ NextFree(i)
    /\ inv' = [inv EXCEPT ![i] = [Idle EXCEPT !.kind = "jira_create",
                                              !.pc = "jc_run"]]
    /\ UNCHANGED <<assignments, nextIssueId, storeLog, built>>

\* mutant: create_ticket mirrors the issue and records an Assignment for it
JiraCreateTicket_inserting(i) ==
    /\ inv[i].pc = "jc_run"
    /\ assignments' = Append(assignments,
                             [zammad_id |-> 100, jira_id |-> NULL])
    /\ inv' = [inv EXCEPT ![i] = Finish(inv[i], "Ok")]
    /\ UNCHANGED <<nextIssueId, storeLog, built>>

\* jira.rs create_ticket: a stub that returns Ok(())
JiraCreateTicket(i) ==
    /\ inv[i].pc = "jc_run"
    /\ inv' = [inv EXCEPT ![i] = Finish(inv[i], "Ok")]
    /\ UNCHANGED <<assignments, nextIssueId, storeLog, built>>

\* POST /update-ticket/:id of the Jira router reaches update_ticket_handler;
\* the webhook has an issue or none, and a comment or none
ReceiveJiraUpdate(i, issue, comment) ==
    /\ NextFree(i)
    /\ KnownIssue(issue)
    /\ inv' = [inv EXCEPT ![i] = [Idle EXCEPT !.kind = "jira_update",
                                              !.issue = issue,
                                              !.body = comment,
                                              !.pc = "ju_resolve"]]
    /\ UNCHANGED <<assignments, nextIssueId, storeLog, built>>

\* jira.rs update_ticket: the issue id of the webhook, or the error "No
\* issue information in webhook"; then db.get_zammad_id_by_jira_id(..).await?
JiraUpdateResolve(i) ==
    /\ inv[i].pc = "ju_resolve"
    /\ IF ~is_some(inv[i].issue)
       THEN inv' = [inv EXCEPT ![i] = Finish(inv[i], "NoIssue")]
       ELSE LET r == get_zammad_id_by_jira_id(assignments, inv[i].issue[1])
            IN  IF r.res = "Ok"
                THEN inv' = [inv EXCEPT
                        ![i] = IF is_some(inv[i].body)
                               THEN [inv[i] EXCEPT !.ticket = r.zammad_id,
                                                   !.pc = "ju_comment"]
                               ELSE Finish([inv[i] EXCEPT
                                              !.ticket = r.zammad_id], "Ok")]
                ELSE inv' = [inv EXCEPT ![i] = Finish(inv[i], r.res)]
    /\ UNCHANGED <<assignments, nextIssueId, storeLog, built>>

\* jira.rs update_ticket: ZammadAddCommentRequest::from_jira_comment(..)
\*     .submit(&zammad_id).await?  The block that would submit a
\* ZammadUpdateTicketRequest after it is commented out.
JiraUpdateComment(i) ==
    /\ inv[i].pc = "ju_comment"
    /\ \E ok \in BOOLEAN :
         LET c == Call("zammad_comment", inv[i].ticket, inv[i].body[1], ok,
                       NULL)
             r == [inv[i] EXCEPT !.calls = Append(@, c)]
         IN  inv' = [inv EXCEPT ![i] =
                        Finish(r, IF ok THEN "Ok" ELSE "RemoteApiError")]
    /\ UNCHANGED <<assignments, nextIssueId, storeLog, built>>

ReverseNext ==
    \/ \E i \in Invocations, t \in Tickets : ReceiveCreate(i, t)
    \/ \E i \in Invocations : CreateInsert(i)
    \/ \E i \in Invocations : CreateSubmit(i)
    \/ \E i \in Invocations : CreateAttach(i)
    \/ \E i \in Invocations : ReceiveJiraCreate(i)
    \/ \E i \in Invocations : JiraCreateTicket(i)
    \/ \E i \in Invocations, issue \in JiraIssues, c \in JiraComments :
          ReceiveJiraUpdate(i, issue, c)
    \/ \E i \in Invocations : JiraUpdateResolve(i)
    \/ \E i \in Invocations : JiraUpdateComment(i)

SpecReverse == Init /\ [][ReverseNext]_vars

\* --------------------------------------- field translators, request builders
\* Text that the code converts or compares is a sequence of characters.
UpperChars == <<"A", "B", "C", "D", "E", "F", "G", "H", "I", "J", "K", "L", "M",
                "N", "O", "P", "Q", "R", "S", "T", "U", "V", "W", "X", "Y", "Z">>
LowerChars == <<"a", "b", "c", "d", "e", "f", "g", "h", "i", "j", "k", "l", "m",
                "n", "o", "p", "q", "r", "s", "t", "u", "v", "w", "x", "y", "z">>

to_lowercase_char(c) ==
    IF \E k \in DOMAIN UpperChars : UpperChars[k] = c
    THEN LowerChars[CHOOSE k \in DOMAIN UpperChars : UpperChars[k] = c]
    ELSE c

\* str::to_lowercase
to_lowercase(s) == [k \in DOMAIN s |-> to_lowercase_char(s[k])]

\* enum ZammadPriorityId, enum ZammadState
ZammadPriorityId == {"Low", "Normal", "High"}
ZammadState == {"Open", "Closed"}
\* enum JiraPriorityEnum, enum JiraStatus
JiraPriorityEnum == {"Highest", "High", "Medium", "Low", "Lowest"}
JiraStatus == {"Open", "Closed"}

\* mutant: Low translated to the target's Low
convert_zammad_priority_to_jira_priority_low_low(priority) ==
    CASE priority = "Low"    -> "Low"
      [] priority = "Normal" -> "Medium"
      [] priority = "High"   -> "High"

convert_zammad_priority_to_jira_priority(priority) ==
    CASE priority = "Low"    -> "Lowest"
      [] priority = "Normal" -> "Medium"
      [] priority = "High"   -> "High"

convert_zammad_state_to_jira_status(state) ==
    CASE state = "Open"   -> "Open"
      [] state = "Closed" -> "Closed"

\* #[derive(Serialize)] enum JiraStatus: a variant is written as its name
JiraStatusLabel(status) ==
    CASE status = "Open"   -> <<"O", "p", "e", "n">>
      [] status = "Closed" -> <<"C", "l", "o", "s", "e", "d">>

\* mutant: the status match without its "closed" arm
zammad_state_of_status_change_done_only(toString) ==
    IF to_lowercase(toString) \in {<<"d", "o", "n", "e">>,
                                   <<"r", "e", "s", "o", "l", "v", "e", "d">>}
    THEN "Closed"
    ELSE "Open"

\* mutant: the status match on the text as written, without to_lowercase
zammad_state_of_status_change_case_sensitive(toString) ==
    IF toString \in {<<"d", "o", "n", "e">>,
                     <<"c", "l", "o", "s", "e", "d">>,
                     <<"r", "e", "s", "o", "l", "v", "e", "d">>}
    THEN "Closed"
    ELSE "Open"

\* from_jira_webhook, the "status" arm
zammad_state_of_status_change(toString) ==
    IF to_lowercase(toString) \in {<<"d", "o", "n", "e">>,
                                   <<"c", "l", "o", "s", "e", "d">>,
                                   <<"r", "e", "s", "o", "l", "v", "e", "d">>}
    THEN "Closed"
    ELSE "Open"

\* from_jira_webhook, the "priority" arm
zammad_priority_of_priority_change(toString) ==
    LET l == to_lowercase(toString)
    IN  CASE l \in {<<"h", "i", "g", "h", "e", "s", "t">>,
                    <<"b", "l", "o", "c", "k", "e", "r">>} -> "High"
          [] l = <<"h", "i", "g", "h">> -> "High"
          [] l = <<"m", "e", "d", "i", "u", "m">> -> "Normal"
          [] l \in {<<"l", "o", "w">>,
                    <<"l", "o", "w", "e", "s", "t">>} -> "Low"
          [] OTHER -> "Normal"

\* from_jira_webhook, one turn of the loop over changelog.items
apply_changelog_item(acc, item) ==
    CASE item.field = "status" ->
           [acc EXCEPT !.state = zammad_state_of_status_change(item.toString)]
      [] item.field = "priority" ->
           [acc EXCEPT !.priority =
                         zammad_priority_of_priority_change(item.toString)]
      [] OTHER -> acc

\* mutant: the loop stops at the first status or priority entry
RECURSIVE apply_changelog_first_only(_, _, _)
apply_changelog_first_only(acc, items, k) ==
    IF k > Len(items)
    THEN acc
    ELSE IF items[k].field \in {"status", "priority"}
         THEN apply_changelog_item(acc, items[k])
         ELSE apply_changelog_first_only(acc, items, k + 1)

\* from_jira_webhook, the loop over changelog.items from item k on
RECURSIVE apply_changelog(_, _, _)
apply_changelog(acc, items, k) ==
    IF k > Len(items)
    THEN acc
    ELSE apply_changelog(apply_changelog_item(acc, items[k]), items, k + 1)

\* ZammadUpdateTicketRequest::from_jira_webhook
ZammadUpdateTicketRequest_from_jira_webhook(webhook) ==
    LET start == [state |-> "Open", priority |-> "Normal"]
        seen  == IF is_some(webhook.jira_webhook_changelog)
                 THEN apply_changelog(start, webhook.jira_webhook_changelog[1],
                                      1)
                 ELSE start
    IN  [title    |-> IF is_some(webhook.jira_webhook_issue)
                      THEN webhook.jira_webhook_issue[1].summary
                      ELSE "",
         state    |-> seen.state,
         priority |-> seen.priority]

\* the fixed destination project: config::get_jira().project_id
get_jira_project == 10000

Digits == <<"0", "1", "2", "3", "4", "5", "6", "7", "8", "9">>
digit(n) == Digits[(n % 10) + 1]

\* mutant: the date written day first (%d-%m-%Y)
format_Y_m_d_day_first(date) ==
    <<digit(date.day \div 10), digit(date.day), "-",
      digit(date.month \div 10), digit(date.month), "-",
      digit(date.year \div 1000), digit(date.year \div 100),
      digit(date.year \div 10), digit(date.year)>>

\* due_date.format("%Y-%m-%d").to_string(): the year on four digits, month
\* and day on two, zero padded; the time of day is not written
format_Y_m_d(date) ==
    <<digit(date.year \div 1000), digit(date.year \div 100),
      digit(date.year \div 10), digit(date.year), "-",
      digit(date.month \div 10), digit(date.month), "-",
      digit(date.day \div 10), digit(date.day)>>

\* JiraCreateIssueRequest::from_zammad_webhook
JiraCreateIssueRequest_from_zammad_webhook(webhook) ==
    [fields |->
       [project     |-> [id |-> get_jira_project],
        summary     |-> webhook.ticket.title,
        description |-> unwrap_or_default(webhook.article.body),
        priority    |-> [name |-> convert_zammad_priority_to_jira_priority(
                                      webhook.ticket.priority.id)],
        issuetype   |-> [name |-> "Task"],
        duedate     |-> format_Y_m_d(webhook.ticket.due_date)]]

\* mutant: the update request also carries the translated state
JiraUpdateIssueRequest_from_zammad_webhook_with_status(webhook) ==
    [fields |->
       [priority |-> [name |-> convert_zammad_priority_to_jira_priority(
                                   webhook.ticket.priority.id)],
        status   |-> convert_zammad_state_to_jira_status(
                         webhook.ticket.state)]]

\* JiraUpdateIssueRequest::from_zammad_webhook
JiraUpdateIssueRequest_from_zammad_webhook(webhook) ==
    [fields |->
       [priority |-> [name |-> convert_zammad_priority_to_jira_priority(
                                   webhook.ticket.priority.id)]]]

\* JiraAddCommentRequest::from_zammad_webhook
JiraAddCommentRequest_from_zammad_webhook(webhook) ==
    [body |-> unwrap_or_default(webhook.article.body)]

\* ----------------------------------------------- builder-level specification
\* The translators and builders applied to payloads drawn from small sets.
MaxChangelog == 2

Titles == {"Printer offline", "VPN down"}
DueDates == {[year |-> 2024, month |-> 3, day |-> 1, hour |-> 23],
             [year |-> 2025, month |-> 12, day |-> 31, hour |-> 0]}

\* the ZammadWebhook payloads
ZammadWebhooks ==
    {[ticket  |-> [id |-> t, title |-> ti, state |-> st,
                   priority |-> [id |-> p], due_date |-> d],
      article |-> [body |-> b]] :
        t \in {100}, ti \in Titles, st \in ZammadState, p \in ZammadPriorityId,
        d \in DueDates, b \in Bodies}

\* the toString values of changelog items
ChangeValues ==
    {<<"D", "o", "n", "e">>, <<"C", "L", "O", "S", "E", "D">>,
     <<"R", "e", "s", "o", "l", "v", "e", "d">>,
     <<"I", "n", " ", "P", "r", "o", "g", "r", "e", "s", "s">>,
     <<"O", "p", "e", "n">>, <<"C", "l", "o", "s", "e", "d">>,
     <<"L", "o", "w">>, <<"L", "o", "w", "e", "s", "t">>,
     <<"M", "e", "d", "i", "u", "m">>, <<"H", "i", "g", "h">>,
     <<"H", "i", "g", "h", "e", "s", "t">>,
     <<"B", "l", "o", "c", "k", "e", "r">>,
     <<"U", "r", "g", "e", "n", "t">>}

ChangelogItems ==
    {[field |-> f, toString |-> v] :
        f \in {"status", "priority", "summary"}, v \in ChangeValues}

SeqsUpTo(S, n) == UNION {[1..k -> S] : k \in 0..n}

\* the JiraWebhook payloads, as far as from_jira_webhook reads them
JiraWebhooks ==
    {[jira_webhook_issue |-> i, jira_webhook_changelog |-> c] :
        i \in {None, Some([id |-> 1, summary |-> "VPN down"])},
        c \in {None} \cup {Some(l) : l \in SeqsUpTo(ChangelogItems,
                                                   MaxChangelog)}}

Built(fn, input, output) ==
    /\ built' = [fn |-> fn, input |-> input, output |-> output]
    /\ UNCHANGED <<assignments, inv, nextIssueId, storeLog>>

TranslatePriority(p) ==
    Built("priority", p, convert_zammad_priority_to_jira_priority(p))

\* a source state translated to the target's status, and the status's label
\* translated back by from_jira_webhook as a "status" change
StateRoundTrip(status) ==
    ZammadUpdateTicketRequest_from_jira_webhook(
        [jira_webhook_issue |-> None,
         jira_webhook_changelog |->
            Some(<<[field |-> "status",
                    toString |-> JiraStatusLabel(status)]>>)]).state

TranslateState(s) ==
    Built("state", s, StateRoundTrip(convert_zammad_state_to_jira_status(s)))

BuildCreateIssue(w) ==
    Built("buildCreateIssue", w, JiraCreateIssueRequest_from_zammad_webhook(w))

BuildUpdateIssue(w) ==
    Built("buildUpdateIssue", w, JiraUpdateIssueRequest_from_zammad_webhook(w))

BuildAddComment(w) ==
    Built("buildAddComment", w, JiraAddCommentRequest_from_zammad_webhook(w))

BuildUpdateSourceTicket(w) ==
    Built("buildUpdateSourceTicket", w,
          ZammadUpdateTicketRequest_from_jira_webhook(w))

\* the texts a Jira status change may carry: the labels of ChangeValues,
\* other spellings of the closing labels, free text, the empty text and a
\* closing label with a trailing blank
StatusLabels ==
    ChangeValues \cup
    {<<"d", "o", "n", "e">>, <<"D", "O", "N", "E">>, <<"d", "O", "n", "E">>,
     <<"c", "l", "o", "s", "e", "d">>,
     <<"R", "E", "S", "O", "L", "V", "E", "D">>,
     <<"r", "e", "s", "o", "l", "v", "e", "d">>,
     <<"T", "o", " ", "D", "o">>, <<"W", "o", "n", "t", " ", "f", "i", "x">>,
     <<"d", "o", "n", "e", " ">>, <<"D", "o", "n">>, <<>>}

\* from_jira_webhook on a changelog with the one status change to label v
TranslateStatusLabel(v) ==
    Built("status", v,
          ZammadUpdateTicketRequest_from_jira_webhook(
              [jira_webhook_issue |-> None,
               jira_webhook_changelog |->
                  Some(<<[field |-> "status", toString |-> v]>>)]).state)

\* one application per behaviour, on a fresh input
Fresh == built.fn = "none"

BuildNext ==
    \/ Fresh /\ \E p \in ZammadPriorityId : TranslatePriority(p)
    \/ Fresh /\ \E s \in ZammadState : TranslateState(s)
    \/ Fresh /\ \E w \in ZammadWebhooks : BuildCreateIssue(w)
    \/ Fresh /\ \E w \in ZammadWebhooks : BuildUpdateIssue(w)
    \/ Fresh /\ \E w \in ZammadWebhooks : BuildAddComment(w)
    \/ Fresh /\ \E w \in JiraWebhooks : BuildUpdateSourceTicket(w)
    \/ Fresh /\ \E v \in StatusLabels : TranslateStatusLabel(v)

SpecBuild == Init /\ [][BuildNext]_vars

\* ------------------------------------------------------------------ claims
\* the positions of storeLog that call op on ticket t
StoreCallsOf(op, t) ==
    {k \in DOMAIN storeLog : storeLog[k].op = op /\ storeLog[k].zammad_id = t}

\* C1: for every source ticket t, the first two createPending(t) calls on a
\* store that started without an Assignment for t yield exactly one success
\* and one DuplicateSourceTicket.
C1_CreatePendingTwice ==
    \A t \in Tickets :
      LET cs == StoreCallsOf("createPending", t)
      IN  Cardinality(cs) >= 2 =>
            LET a == SetMin(cs)
                b == SetMin(cs \ {a})
            IN  {storeLog[a].res, storeLog[b].res} =
                    {"Ok", "DuplicateSourceTicket"}

\* C2: in every reachable state there is at most one Assignment row per
\* source ticket id (zammad_id).
C2_UniqueSourceTicket ==
    \A a, b \in DOMAIN assignments :
      assignments[a].zammad_id = assignments[b].zammad_id => a = b

\* the remote calls of kind op that invocation i has submitted
CallsOf(i, op) == {k \in DOMAIN inv[i].calls : inv[i].calls[k].op = op}

\* the create invocations that have submitted a create-issue request for t
CreateRequestsFor(t) ==
    {i \in Invocations : /\ inv[i].kind = "create"
                         /\ inv[i].ticket = t
                         /\ CallsOf(i, "create") # {}}

\* C3: a "ticket created" event that arrives when an Assignment already
\* exists for its ticket submits no remote create-issue request and returns
\* success; hence at most one create-issue request is ever submitted per
\* source ticket.
C3_DuplicateCreateIsIdempotent ==
    /\ [][\A i \in Invocations :
            (/\ inv[i].pc = "c_insert"
             /\ inv'[i].pc # "c_insert"
             /\ RowsOf(assignments, inv[i].ticket) # {})
            => (/\ inv'[i].pc = "done"
                /\ inv'[i].result = "Ok"
                /\ inv'[i].calls = <<>>)]_vars
    /\ [](\A t \in Tickets : Cardinality(CreateRequestsFor(t)) <= 1)

\* create invocations i and j are in flight together, both past createPending
BothPastInsert(i, j) ==
    /\ i # j
    /\ inv[i].kind = "create" /\ inv[j].kind = "create"
    /\ inv[i].ticket = inv[j].ticket
    /\ inv[i].pc \in {"c_submit", "c_attach"}
    /\ inv[j].pc \in {"c_submit", "c_attach"}

\* C4: of two concurrent "ticket created" invocations for the same source
\* ticket, exactly one createPending succeeds and the other fails with
\* DuplicateSourceTicket.
C4_ConcurrentCreateOneWins ==
    \A i, j \in Invocations :
      BothPastInsert(i, j)
      => {inv[i].pending, inv[j].pending} = {"Ok", "DuplicateSourceTicket"}

\* invocation i takes its resolve step (get_jira_id_by_zammad_id) now
Resolves(i) == inv[i].pc = "u_resolve" /\ inv'[i].pc # "u_resolve"

\* an update invocation whose target lookup failed
ResolveFailed(i) ==
    /\ inv[i].kind = "update"
    /\ inv[i].result \in {"RowNotFound", "ColumnDecode"}

\* C5: an "updated" event for a source ticket that has no Assignment
\* (Unlinked) fails and issues zero remote calls: neither add-comment nor
\* update-issue.
C5_UpdateUnlinkedFails ==
    /\ [][\A i \in Invocations :
            (Resolves(i) /\ RowsOf(assignments, inv[i].ticket) = {})
            => (/\ inv'[i].pc = "done"
                /\ inv'[i].result = "RowNotFound"
                /\ inv'[i].status # 200
                /\ inv'[i].calls = <<>>)]_vars
    /\ [](\A i \in Invocations :
            (inv[i].kind = "update" /\ inv[i].result = "RowNotFound")
            => (inv[i].pc = "done" /\ inv[i].calls = <<>>))

C5_Witness ==
    \E i \in Invocations :
      /\ inv[i].kind = "update" /\ inv[i].pc = "done"
      /\ inv[i].result = "RowNotFound"
      /\ RowsOf(assignments, inv[i].ticket) = {}

\* ticket t is in PendingCreate: it has an Assignment and the target id is
\* still null
PendingCreate(rows, t) ==
    /\ RowsOf(rows, t) # {}
    /\ \A k \in RowsOf(rows, t) : rows[k].jira_id = NULL

CreatedIds(t) ==
    {inv[j].jira_issue_id : j \in
        {j \in Invocations : /\ inv[j].kind = "create"
                             /\ inv[j].ticket = t
                             /\ inv[j].pc = "done"
                             /\ inv[j].result = "Ok"}}

\* update invocation i carries a non-empty comment body
HasComment(i) == is_some(inv[i].body) /\ inv[i].body[1] # ""

\* the calls of update invocation i, step by step: the add-comment call to
\* the resolved id comes first and alone, the update-priority call to the
\* same id follows it once it has succeeded, and nothing else is sent
CommentThenUpdate(i) ==
    LET c  == inv[i].calls
        id == inv[i].jira_issue_id
        comment(ok) == Call("comment", id, inv[i].body[1], ok, NULL)
        update(ok)  == Call("update", id, "", ok, NULL)
    IN  CASE inv[i].pc = "u_comment" -> c = <<>>
          [] inv[i].pc = "u_update"  -> c = <<comment(TRUE)>>
          [] inv[i].pc = "done" /\ inv[i].result = "Ok" ->
                 c = <<comment(TRUE), update(TRUE)>>
          [] inv[i].pc = "done" /\ inv[i].result = "RemoteApiError" ->
                 c \in {<<comment(FALSE)>>, <<comment(TRUE), update(FALSE)>>}
          [] OTHER -> FALSE

\* C7: after a "created" event for ticket T has completed successfully, an
\* "updated" event for T with a non-empty comment body resolves T to the
\* target id returned by the remote create call, and submits exactly one
\* add-comment call followed by exactly one update-priority call against
\* that id, the add-comment strictly before the update.
C7_CreateThenUpdate ==
    /\ [][\A i \in Invocations :
            (/\ Resolves(i)
             /\ HasComment(i)
             /\ CreatedIds(inv[i].ticket) # {})
            => (/\ inv'[i].pc = "u_comment"
                /\ inv'[i].jira_issue_id \in CreatedIds(inv[i].ticket)
                /\ inv'[i].calls = <<>>)]_vars
    /\ [](\A i \in Invocations :
            (/\ inv[i].kind = "update"
             /\ HasComment(i)
             /\ inv[i].pc # "u_resolve"
             /\ ~ResolveFailed(i))
            => CommentThenUpdate(i))

C7_Witness ==
    \E i \in Invocations :
      /\ inv[i].kind = "update" /\ HasComment(i)
      /\ inv[i].pc = "done" /\ inv[i].result = "Ok"
      /\ inv[i].jira_issue_id \in CreatedIds(inv[i].ticket)
      /\ Len(inv[i].calls) = 2

\* C8: on an "updated" event in Linked an add-comment request is submitted
\* only when the event carries a non-empty comment body: with the body
\* absent or the empty string, zero add-comment calls are made and the
\* update-priority call is still submitted.
C8_NoCommentWithoutBody ==
    \A i \in Invocations :
      (inv[i].kind = "update" /\ ~HasComment(i))
      => /\ CallsOf(i, "comment") = {}
         /\ (inv[i].pc = "done" /\ ~ResolveFailed(i))
              => Cardinality(CallsOf(i, "update")) = 1

\* C9: an Assignment has a non-null target id (Linked) only if a remote
\* create-issue call for that same source ticket has returned successfully,
\* and the stored target id is an id returned by such a call.
C9_LinkedOnlyAfterRemoteCreate ==
    \A k \in DOMAIN assignments :
      assignments[k].jira_id # NULL
      => \E i \in CreateRequestsFor(assignments[k].zammad_id) :
           \E c \in CallsOf(i, "create") :
             /\ inv[i].calls[c].ok
             /\ inv[i].calls[c].id = assignments[k].jira_id

C9_Witness ==
    \E k \in DOMAIN assignments : assignments[k].jira_id # NULL

\* C10: attachTarget fails with NotFound when no Assignment exists for the
\* source ticket, and leaves the store unchanged in that case.
C10_AttachTargetNotFound ==
    \A k \in DOMAIN storeLog :
      (/\ storeLog[k].op = "attachTarget"
       /\ RowsOf(storeLog[k].before, storeLog[k].zammad_id) = {})
      => (/\ storeLog[k].res = "NotFound"
          /\ storeLog[k].after = storeLog[k].before)

\* the target ids stored in the rows of ticket t
StoredIds(rows, t) == {rows[k].jira_id : k \in RowsOf(rows, t)} \ {NULL}

C12_PriorityTable ==
    built.fn = "priority" =>
      /\ built.output \in JiraPriorityEnum
      /\ built.input = "Low"    => built.output = "Lowest"
      /\ built.input = "Normal" => built.output = "Medium"
      /\ built.input = "High"   => built.output = "High"

C12_Witness ==
    built.fn = "priority" /\ built.input = "Low" /\ built.output = "Lowest"

\* C13: for open and for closed, translating the source state to the
\* target's status and the status's textual label back, through the status
\* branch of from_jira_webhook, yields the original state.
C13_StateRoundTrip ==
    built.fn = "state" => built.output = built.input

C13_Witness ==
    built.fn = "state" /\ built.input = "Closed" /\ built.output = "Closed"

\* the changelog items of a JiraWebhook, none when it has no changelog
ItemsOf(w) ==
    IF w.jira_webhook_changelog = None THEN <<>>
    ELSE w.jira_webhook_changelog[1]

\* the position of the last item of the changelog that changes field f
LastChange(w, f) ==
    LET at == {k \in DOMAIN ItemsOf(w) : ItemsOf(w)[k].field = f}
    IN  IF at = {} THEN 0 ELSE CHOOSE k \in at : \A j \in at : j <= k

\* C14: buildUpdateSourceTicket takes, for status and for priority each on
\* its own, the last changelog entry of that field in payload order; the
\* changelog [status -> "Done", priority -> "Low"] gives state Closed and
\* priority Low; entries of other fields change neither value.
C14_LastChangeWins ==
    built.fn = "buildUpdateSourceTicket" =>
      LET w == built.input
          s == LastChange(w, "status")
          p == LastChange(w, "priority")
      IN  /\ built.output.state =
                IF s = 0 THEN "Open"
                ELSE zammad_state_of_status_change(ItemsOf(w)[s].toString)
          /\ built.output.priority =
                IF p = 0 THEN "Normal"
                ELSE zammad_priority_of_priority_change(ItemsOf(w)[p].toString)
          /\ ItemsOf(w) = <<[field |-> "status",
                             toString |-> <<"D", "o", "n", "e">>],
                            [field |-> "priority",
                             toString |-> <<"L", "o", "w">>]>>
             => (built.output.state = "Closed" /\ built.output.priority = "Low")

C14_Witness ==
    /\ built.fn = "buildUpdateSourceTicket"
    /\ ItemsOf(built.input) = <<[field |-> "status",
                                 toString |-> <<"D", "o", "n", "e">>],
                                [field |-> "priority",
                                 toString |-> <<"L", "o", "w">>]>>
    /\ built.output.state = "Closed"
    /\ built.output.priority = "Low"

\* the due dates of the payloads as the text YYYY-MM-DD
ExpectedDueDate(date) ==
    CASE date.year = 2024 /\ date.month = 3 /\ date.day = 1 ->
           <<"2", "0", "2", "4", "-", "0", "3", "-", "0", "1">>
      [] date.year = 2025 /\ date.month = 12 /\ date.day = 31 ->
           <<"2", "0", "2", "5", "-", "1", "2", "-", "3", "1">>

\* C18: buildCreateIssue gives, for every ticket snapshot, the ticket title
\* as summary, the article body (the empty string when it is absent) as
\* description, the translated priority, the due date as YYYY-MM-DD, and
\* the configured project id whatever the payload is.
C18_BuildCreateIssue ==
    built.fn = "buildCreateIssue" =>
      LET w == built.input
          f == built.output.fields
      IN  /\ f.summary = w.ticket.title
          /\ f.description = IF w.article.body = None THEN ""
                             ELSE w.article.body[1]
          /\ w.ticket.priority.id = "Low"    => f.priority.name = "Lowest"
          /\ w.ticket.priority.id = "Normal" => f.priority.name = "Medium"
          /\ w.ticket.priority.id = "High"   => f.priority.name = "High"
          /\ f.duedate = ExpectedDueDate(w.ticket.due_date)
          /\ f.project.id = get_jira_project

C18_Witness ==
    /\ built.fn = "buildCreateIssue"
    /\ built.input.ticket.priority.id = "High"
    /\ built.input.ticket.due_date.year = 2024
    /\ built.input.article.body = None
    /\ built.output.fields.priority.name = "High"
    /\ built.output.fields.duedate =
           <<"2", "0", "2", "4", "-", "0", "3", "-", "0", "1">>
    /\ built.output.fields.description = ""

\* ---- C15, C16: the reverse direction
JiraKinds == {"jira_create", "jira_update"}

\* invocation i is one of the Jira router's and takes a step
JiraStep(i) == inv'[i] # inv[i] /\ inv'[i].kind \in JiraKinds

\* the Assignment rows come one each from the Zammad create invocations
\* whose insert has run
InsertedBy == {i \in Invocations : inv[i].kind = "create"
                                     /\ inv[i].pending = "Ok"}

\* C15: no event originating in Jira creates an Assignment or initiates a
\* ticket creation: every step of a Jira-originated create or update
\* invocation leaves the Assignment rows as they were, such an invocation
\* never sends a create request to Zammad (the only call it makes is an
\* add-comment), and there are exactly as many rows as Zammad "created"
\* invocations that performed their insert.
C15_NoCreationFromTarget ==
    /\ [][\A i \in Invocations : JiraStep(i) => assignments' = assignments]_vars
    /\ [](\A i \in Invocations :
            inv[i].kind \in JiraKinds =>
              \A k \in DOMAIN inv[i].calls :
                 inv[i].calls[k].op = "zammad_comment")
    /\ [](Len(assignments) = Cardinality(InsertedBy))

\* a Jira create and a Jira update with a comment have both run to the end
\* while an Assignment exists
C15_Witness ==
    /\ assignments # <<>>
    /\ \E i, j \in Invocations :
         /\ inv[i].kind = "jira_create" /\ inv[i].pc = "done"
         /\ inv[j].kind = "jira_update" /\ inv[j].pc = "done"
         /\ inv[j].calls # <<>>

\* C16 (fails in the code): a Jira-originated update for a linked issue
\* that ends well has resolved the Zammad ticket id and issued an update
\* against Zammad, plus a comment when the event carries one; for an issue
\* with no Assignment it fails having issued no call.
C16_ReverseUpdateIssuesUpdate ==
    \A i \in Invocations :
       (inv[i].kind = "jira_update" /\ inv[i].pc = "done") =>
          IF inv[i].result = "Ok"
          THEN /\ inv[i].ticket \in Tickets
               /\ \E k \in DOMAIN inv[i].calls :
                     /\ inv[i].calls[k].op = "zammad_update"
                     /\ inv[i].calls[k].target = inv[i].ticket
               /\ is_some(inv[i].body) =>
                     \E k \in DOMAIN inv[i].calls :
                        inv[i].calls[k].op = "zammad_comment"
          ELSE inv[i].result \in {"NoIssue", "RowNotFound"} =>
                  inv[i].calls = <<>>

\* ---- C17: the status an invocation answers with
\* C17 (fails in the code): an invocation that has ended answers 200 when
\* processing succeeded and 500 when a call to the remote issue tracker
\* failed; any other failure answers 400, 404 or 500.
C17_StatusByOutcome ==
    \A i \in Invocations :
       inv[i].pc = "done" =>
          CASE inv[i].result = "Ok" -> inv[i].status = 200
            [] inv[i].result = "RemoteApiError" -> inv[i].status = 500
            [] OTHER -> inv[i].status \in {400, 404, 500}

\* ---- C19: the insert precedes the remote create
\* C19: in every reachable state in which a created-event invocation for
\* ticket T has submitted its remote create-issue request, whether the
\* remote accepted it or not, an Assignment row for T exists.
C19_InsertBeforeRemoteCreate ==
    \A i \in Invocations :
       (inv[i].kind = "create" /\ CallsOf(i, "create") # {}) =>
          /\ inv[i].pending = "Ok"
          /\ RowsOf(assignments, inv[i].ticket) # {}

\* a create request has been accepted by the remote and the row is still
\* pending
C19_Witness ==
    \E i \in Invocations :
       /\ inv[i].kind = "create" /\ inv[i].pc = "c_attach"
       /\ CallsOf(i, "create") # {}
       /\ PendingCreate(assignments, inv[i].ticket)

\* ---- C20: a failed or interrupted create
\* the remote create of invocation i failed
CreateFailed(i) ==
    /\ inv[i].kind = "create"
    /\ \E k \in CallsOf(i, "create") : ~inv[i].calls[k].ok

\* invocation i stopped between the remote success and the attach
Stopped(i) == inv[i].kind = "create" /\ inv[i].pc = "stopped"

\* invocation j has performed its attach
Attached(j) ==
    /\ inv[j].kind = "create" /\ inv[j].pc = "done"
    /\ inv[j].jira_issue_id # NULL

ClosingLabels ==
    {<<"D", "o", "n", "e">>, <<"d", "o", "n", "e">>, <<"D", "O", "N", "E">>,
     <<"d", "O", "n", "E">>,
     <<"C", "l", "o", "s", "e", "d">>, <<"C", "L", "O", "S", "E", "D">>,
     <<"c", "l", "o", "s", "e", "d">>,
     <<"R", "e", "s", "o", "l", "v", "e", "d">>,
     <<"R", "E", "S", "O", "L", "V", "E", "D">>,
     <<"r", "e", "s", "o", "l", "v", "e", "d">>}

\* C21: a status change to "done", "closed" or "resolved", in any mix of
\* upper and lower case, translates to Closed; every other text, a label of
\* another state, free text, the empty text, translates to Open.
C21_StatusLabelToState ==
    built.fn = "status" =>
       built.output = IF built.input \in ClosingLabels THEN "Closed"
                                                       ELSE "Open"

\* a closing label in upper case has been translated to Closed
C21_Witness ==
    /\ built.fn = "status"
    /\ built.input = <<"C", "L", "O", "S", "E", "D">>
    /\ built.output = "Closed"

\* ---- C22: the source state is not sent
\* C22: the source ticket's state is never sent to Jira: for every ticket
\* snapshot, open or closed, the create-issue request has the fields
\* project, summary, description, priority, issuetype and duedate and no
\* status, and the update-issue request built from a source event has the
\* one field priority, holding the translated priority.
C22_StateNotSent ==
    /\ built.fn = "buildCreateIssue" =>
          /\ DOMAIN built.output = {"fields"}
          /\ DOMAIN built.output.fields =
                {"project", "summary", "description", "priority",
                 "issuetype", "duedate"}
    /\ built.fn = "buildUpdateIssue" =>
          /\ DOMAIN built.output = {"fields"}
          /\ DOMAIN built.output.fields = {"priority"}
          /\ DOMAIN built.output.fields.priority = {"name"}
          /\ built.output.fields.priority.name =
                CASE built.input.ticket.priority.id = "Low" -> "Lowest"
                  [] built.input.ticket.priority.id = "Normal" -> "Medium"
                  [] built.input.ticket.priority.id = "High" -> "High"

\* an update request has been built for a closed ticket
C22_Witness ==
    /\ built.fn = "buildUpdateIssue"
    /\ built.input.ticket.state = "Closed"
    /\ built.input.ticket.priority.id = "Low"
    /\ built.output.fields.priority.name = "Lowest"

\* ---- C23: stability of the link
\* C23 (fails in the code): once a row's target issue id is populated, no
\* step of a created or updated invocation, for any ticket, changes it or
\* resets it to null.
C23_LinkStable ==
    [][\A k \in DOMAIN assignments :
          assignments[k].jira_id # NULL =>
             /\ k \in DOMAIN assignments'
             /\ assignments'[k] = assignments[k]]_vars

\* ---- C24: an update does not write the store
\* invocation i is an "updated" invocation and takes a step
UpdateStep(i) == inv'[i] # inv[i] /\ inv'[i].kind = "update"

\* C24: every step of an "updated" invocation, from its receipt to its
\* success or failure, leaves the Assignment rows and every target id as
\* they were.
C24_UpdateLeavesStore ==
    [][\A i \in Invocations : UpdateStep(i) => assignments' = assignments]_vars

\* one "updated" invocation has succeeded and another has failed, with an
\* Assignment in the store
C24_Witness ==
    /\ assignments # <<>>
    /\ \E i, j \in Invocations :
         /\ inv[i].kind = "update" /\ inv[i].pc = "done"
         /\ inv[i].result = "Ok"
         /\ inv[j].kind = "update" /\ inv[j].pc = "done"
         /\ inv[j].result # "Ok"

\* ---- C25: a failed comment ends the update
\* the add-comment call of invocation i failed
CommentFailed(i) ==
    /\ inv[i].kind = "update"
    /\ \E k \in CallsOf(i, "comment") : ~inv[i].calls[k].ok

\* C25: an "updated" invocation makes at most one add-comment call and at
\* most one update-issue call and makes no call after a failed one; when
\* its add-comment call fails it ends with the remote error and a status
\* other than 200, without an update-issue call.
C25_CommentFailureStops ==
    \A i \in Invocations :
       inv[i].kind = "update" =>
          /\ Cardinality(CallsOf(i, "comment")) <= 1
          /\ Cardinality(CallsOf(i, "update")) <= 1
          /\ CallsOf(i, "create") = {}
          /\ \A k \in DOMAIN inv[i].calls :
                ~inv[i].calls[k].ok => k = Len(inv[i].calls)
          /\ CommentFailed(i) =>
                /\ inv[i].pc = "done"
                /\ inv[i].result = "RemoteApiError"
                /\ inv[i].status # 200
                /\ CallsOf(i, "update") = {}

\* an update with a comment body, for a linked ticket, whose add-comment
\* call failed
C25_Witness ==
    \E i \in Invocations :
       /\ CommentFailed(i) /\ HasComment(i)
       /\ inv[i].jira_issue_id # NULL
       /\ inv[i].pc = "done"

\* ---- C26: redelivery of the created webhook
\* ticket t has an Assignment with a populated target id
LinkedTicket(t) ==
    \E k \in RowsOf(assignments, t) : assignments[k].jira_id # NULL

\* under redelivery after every failure, with a remote that stops failing,
\* every ticket whose created webhook was delivered becomes linked
RedeliveryLinks ==
    \A t \in Tickets : (CreatesFor(t) # {}) ~> LinkedTicket(t)

\* C26 (fails in the code): when the created webhook of a ticket is
\* delivered again after every failed invocation and the remote create
\* stops failing, the ticket eventually has an Assignment with a populated
\* target id, and a linked ticket has exactly one Assignment.
C26_RedeliveryLinksUniquely ==
    /\ RedeliveryLinks
    /\ [](\A t \in Tickets :
            LinkedTicket(t) => Cardinality(RowsOf(assignments, t)) = 1)

\* ---- C27: invocations for different tickets
\* the issue ids the remote returned to the created-event invocations for t
IssuedFor(t) ==
    UNION {{inv[j].calls[k].id :
              k \in {k \in CallsOf(j, "create") : inv[j].calls[k].ok}} :
           j \in CreatesFor(t)}

NoAttachYet(t) == \A c \in CreatesFor(t) : inv[c].pc # "done"

====
